---- MODULE Spec2Model ----
(***************************************************************************)
(* The expression evaluator of Projects/cpp/calculator/calculator_app.cpp: *)
(* CalculatorWindow::evaluate_expression and the recursive-descent parser  *)
(* parse_add_sub / parse_mul_div / parse_number over one std::istringstream.*)
(*                                                                         *)
(* The recursion is made explicit as a stack of frames; one action is one  *)
(* step of one function.  A character is a one-character string and the    *)
(* expression a sequence of characters.  A double is modelled by an exact  *)
(* rational <<n, d>> in lowest terms with d > 0; <<1, 0>> stands for every *)
(* non-finite double (inf, nan).  Rounding of double arithmetic is not     *)
(* modelled.  operator>>(double&) is modelled as libstdc++ implements it   *)
(* (num_get::_M_extract_float followed by __convert_to_v), g++ being the   *)
(* compiler this repository invokes (src/main.cpp:325).                    *)
(***************************************************************************)
EXTENDS Integers, Sequences, FiniteSets, TLC

VARIABLES
    expr,     \* the text of the entry when "=" is clicked (const std::string& expr)
    pc,       \* position of evaluate_expression: "idle", "parsing", "done"
    pos,      \* read position of the istringstream `in`: characters consumed so far
    eofbit,   \* in.rdstate() & eofbit
    failbit,  \* in.rdstate() & failbit
    stack,    \* call stack of parse_add_sub / parse_mul_div / parse_number frames
    ret,      \* value returned by the call that returned last
    exc,      \* what() of the std::runtime_error in flight, NoExc when none
    result,   \* the caller's `double res` (double& result)
    error,    \* the caller's `std::string error` (std::string& error)
    ok,       \* return value of evaluate_expression once pc = "done"
    atoms,    \* history: read positions at which parse_number was entered
    numAt,    \* history: read position at which the last `in >> val` began, -1 before
    numText,  \* history: characters consumed by the last `in >> val`
    applied,  \* history: number of arithmetic operators applied so far
    \* src/main.cpp, main:
    mpc,         \* position of main: "start", "clone1", "extract", "clone2",
                 \* "window", "gui", "exited"
    repoIdx,     \* index of the repository the current clone loop is at
    dirExists,   \* the directory g_extraction_target_dir exists
    repoDir,     \* per target directory of a repository: "absent" (or empty),
                 \* "cloned" (holds a clone), "other" (holds other files)
    projects,    \* std::vector<Project> projects, then MainWindow::projects_
    menus,       \* the window's dropdowns: project type -> the projects of its menu
    exitStatus,  \* how main ended: "running", "0", "1" (returned), "exit",
                 \* "terminate"
    dirCreated,  \* history: the directory was created
    cloned,      \* history: target directories a git clone succeeded into
    removeFailed,\* history: remove_all of the destructor reported an error
    \* src/main.cpp, MainWindow::launch_project:
    lpc,         \* position of launch_project: "idle", "compiling", "compiled", "running"
    proj,        \* the project being launched
    outLog,      \* text buffer of the output window, one entry per append
    errLog,      \* text buffer of the error log, one entry per append
    events       \* history: the commands of the current launch, started and exited

calcVars == <<expr, pc, pos, eofbit, failbit, stack, ret, exc, result, error, ok,
              atoms, numAt, numText, applied>>

mainVars == <<mpc, repoIdx, dirExists, repoDir, projects, menus, exitStatus,
              dirCreated, cloned, removeFailed>>

launchVars == <<lpc, proj, outLog, errLog, events>>

vars == <<calcVars, mainVars, launchVars>>

\* ------------------------------------------------------------------ bounds

\* Longest expression drawn from the whole alphabet.
MaxLen == 3

\* ------------------------------------------------------------------ characters

Digits == <<"0", "1", "2", "3", "4", "5", "6", "7", "8", "9">>

IsDigit(ch) == \E i \in 1..10 : Digits[i] = ch

DigitVal(ch) == (CHOOSE i \in 1..10 : Digits[i] = ch) - 1

\* isspace() in the "C" locale; EOF is not a space.
IsSpace(ch) == ch \in {" ", "\t", "\n", "\r"}

\* What peek() and get() return at end of input or on a stream that is not good().
EOF == "EOF"

\* ------------------------------------------------------------------ doubles

Abs(n) == IF n < 0 THEN -n ELSE n

RECURSIVE Gcd(_, _)
Gcd(a, b) == IF b = 0 THEN a ELSE Gcd(b, a % b)

NonFinite == <<1, 0>>

IsFinite(v) == v[2] # 0

Norm(n, d) ==
    IF d = 0 THEN NonFinite
    ELSE LET g == Gcd(Abs(n), Abs(d))
             s == IF d < 0 THEN -1 ELSE 1
         IN  <<s * (n \div g), s * (d \div g)>>

Zero == <<0, 1>>

IsZero(v) == v[2] # 0 /\ v[1] = 0

DAdd(a, b) ==
    IF ~IsFinite(a) \/ ~IsFinite(b) THEN NonFinite
    ELSE Norm(a[1] * b[2] + b[1] * a[2], a[2] * b[2])

DSub(a, b) ==
    IF ~IsFinite(a) \/ ~IsFinite(b) THEN NonFinite
    ELSE Norm(a[1] * b[2] - b[1] * a[2], a[2] * b[2])

DMul(a, b) ==
    IF ~IsFinite(a) \/ ~IsFinite(b) THEN NonFinite
    ELSE Norm(a[1] * b[1], a[2] * b[2])

\* IEEE division: x / 0.0 is inf or nan, never a trap.
DDiv(a, b) ==
    IF ~IsFinite(a) \/ ~IsFinite(b) THEN NonFinite
    ELSE Norm(a[1] * b[2], a[2] * b[1])

RECURSIVE Pow10(_)
Pow10(k) == IF k = 0 THEN 1 ELSE 10 * Pow10(k - 1)

\* ------------------------------------------------------------------ strtod

\* Index just after the longest run of digits of x that starts at index i.
RECURSIVE DigitsEnd(_, _)
DigitsEnd(x, i) ==
    IF i <= Len(x) /\ IsDigit(x[i]) THEN DigitsEnd(x, i + 1) ELSE i

\* The decimal value of the digits x[a], ..., x[b - 1].
RECURSIVE DigitsValue(_, _, _)
DigitsValue(x, a, b) ==
    IF b <= a THEN 0 ELSE 10 * DigitsValue(x, a, b - 1) + DigitVal(x[b - 1])

CharAt(x, i) == IF i >= 1 /\ i <= Len(x) THEN x[i] ELSE EOF

IsSign(ch) == ch \in {"+", "-"}

\* strtod(x, &endp) on a decimal literal: [val, endp], endp the index of the
\* first character not converted (1 when no conversion was performed).
Strtod(x) ==
    LET i1    == IF IsSign(CharAt(x, 1)) THEN 2 ELSE 1
        i2    == DigitsEnd(x, i1)
        point == CharAt(x, i2) = "."
        i3    == IF point THEN DigitsEnd(x, i2 + 1) ELSE i2
        nfrac == IF point THEN i3 - i2 - 1 ELSE 0
        nmant == (i2 - i1) + nfrac
        mant  == DigitsValue(x, i1, i2) * Pow10(nfrac)
                   + (IF point THEN DigitsValue(x, i2 + 1, i3) ELSE 0)
        hasE  == CharAt(x, i3) \in {"e", "E"}
        j     == IF IsSign(CharAt(x, i3 + 1)) THEN i3 + 2 ELSE i3 + 1
        k     == DigitsEnd(x, j)
        expOk == hasE /\ k > j
        e     == IF ~expOk THEN 0
                 ELSE IF CharAt(x, i3 + 1) = "-" THEN -DigitsValue(x, j, k)
                 ELSE DigitsValue(x, j, k)
        sgn   == IF CharAt(x, 1) = "-" THEN -1 ELSE 1
        sh    == e - nfrac
    IN  IF nmant = 0 THEN [val |-> Zero, endp |-> 1]
        ELSE [val  |-> IF sh >= 0 THEN Norm(sgn * mant * Pow10(sh), 1)
                       ELSE Norm(sgn * mant, Pow10(-sh)),
              endp |-> IF expOk THEN k ELSE i3]

\* std::__convert_to_v<double>: the conversion fails unless strtod used the whole
\* of the accumulated text.
ConvertToV(x) ==
    LET r == Strtod(x)
    IN  IF r.endp = 1 \/ r.endp # Len(x) + 1
        THEN [val |-> Zero, fail |-> TRUE]
        ELSE [val |-> r.val, fail |-> FALSE]

\* ------------------------------------------------------------------ num_get

\* The main loop of num_get::_M_extract_float in the "C" locale, from the character
\* at index i of s: digits, one decimal point before any exponent, one exponent
\* after a mantissa digit with its optional sign.  a = [i, xtrc, mant, dec, sci].
RECURSIVE ExtractLoop(_, _)
ExtractLoop(s, a) ==
    IF a.i > Len(s) THEN a
    ELSE LET ch == s[a.i] IN
         IF IsDigit(ch)
         THEN ExtractLoop(s, [a EXCEPT !.i = a.i + 1, !.xtrc = Append(a.xtrc, ch),
                                       !.mant = TRUE])
         ELSE IF ch = "." /\ ~a.dec /\ ~a.sci
         THEN ExtractLoop(s, [a EXCEPT !.i = a.i + 1, !.xtrc = Append(a.xtrc, "."),
                                       !.dec = TRUE])
         ELSE IF ch \in {"e", "E"} /\ ~a.sci /\ a.mant
         THEN IF a.i + 1 > Len(s)
              THEN [a EXCEPT !.i = a.i + 1, !.xtrc = Append(a.xtrc, "e"), !.sci = TRUE]
              ELSE IF IsSign(s[a.i + 1])
              THEN ExtractLoop(s, [a EXCEPT !.i = a.i + 2,
                                            !.xtrc = a.xtrc \o <<"e", s[a.i + 1]>>,
                                            !.sci = TRUE])
              ELSE ExtractLoop(s, [a EXCEPT !.i = a.i + 1,
                                            !.xtrc = Append(a.xtrc, "e"),
                                            !.sci = TRUE])
         ELSE a

\* The leading zeros of _M_extract_float: the first one is kept, the others dropped.
RECURSIVE ExtractZeros(_, _)
ExtractZeros(s, a) ==
    IF a.i <= Len(s) /\ s[a.i] = "0"
    THEN ExtractZeros(s, [a EXCEPT !.i = a.i + 1,
                                   !.xtrc = IF a.mant THEN a.xtrc ELSE Append(a.xtrc, "0"),
                                   !.mant = TRUE])
    ELSE a

\* Mutant of ExtractFloat: no sign is accepted in front of the mantissa.
ExtractFloat_NoSign(s, i) ==
    ExtractLoop(s, ExtractZeros(s, [i |-> i, xtrc |-> <<>>, mant |-> FALSE,
                                    dec |-> FALSE, sci |-> FALSE]))

\* num_get::_M_extract_float on s from index i: the optional sign, the leading
\* zeros, the main loop.  The result's i is the index of the first character left.
ExtractFloat(s, i) ==
    LET a0 == [i |-> i, xtrc |-> <<>>, mant |-> FALSE, dec |-> FALSE, sci |-> FALSE]
        a1 == IF i <= Len(s) /\ IsSign(s[i])
              THEN [a0 EXCEPT !.i = i + 1, !.xtrc = <<s[i]>>]
              ELSE a0
    IN  ExtractLoop(s, ExtractZeros(s, a1))

\* ------------------------------------------------------------------ the stream
\* A configuration c is the record of all variables; every step is an operator
\* from configurations to configurations.

Cfg ==
    [expr |-> expr, pc |-> pc, pos |-> pos, eofbit |-> eofbit, failbit |-> failbit,
     stack |-> stack, ret |-> ret, exc |-> exc, result |-> result, error |-> error,
     ok |-> ok, atoms |-> atoms, numAt |-> numAt, numText |-> numText,
     applied |-> applied]

Becomes(c) ==
    /\ expr' = c.expr
    /\ pc' = c.pc
    /\ pos' = c.pos
    /\ eofbit' = c.eofbit
    /\ failbit' = c.failbit
    /\ stack' = c.stack
    /\ ret' = c.ret
    /\ exc' = c.exc
    /\ result' = c.result
    /\ error' = c.error
    /\ ok' = c.ok
    /\ atoms' = c.atoms
    /\ numAt' = c.numAt
    /\ numText' = c.numText
    /\ applied' = c.applied
    /\ UNCHANGED <<mainVars, launchVars>>

\* in.good(): badbit is never set on a string stream.
Good(c) == ~c.eofbit /\ ~c.failbit

AtEnd(c) == c.pos >= Len(c.expr)

\* The value of in.peek() and of in.get(): the next character, EOF at the end of
\* the input and on a stream that is not good (the sentry fails).
NextChar(c) == IF Good(c) /\ ~AtEnd(c) THEN c.expr[c.pos + 1] ELSE EOF

\* The stream after in.peek(): the sentry sets failbit on a stream that is not
\* good, the end of the input sets eofbit; the read position stays.
Peek(c) ==
    IF ~Good(c) THEN [c EXCEPT !.failbit = TRUE]
    ELSE IF AtEnd(c) THEN [c EXCEPT !.eofbit = TRUE]
    ELSE c

\* The stream after in.get(): one character consumed, or eofbit and failbit.
Get(c) ==
    IF ~Good(c) THEN [c EXCEPT !.failbit = TRUE]
    ELSE IF AtEnd(c) THEN [c EXCEPT !.eofbit = TRUE, !.failbit = TRUE]
    ELSE [c EXCEPT !.pos = c.pos + 1]

\* Read position after the sentry of operator>> skipped white space (skipws).
RECURSIVE SkipWs(_, _)
SkipWs(s, p) == IF p < Len(s) /\ IsSpace(s[p + 1]) THEN SkipWs(s, p + 1) ELSE p

\* `in >> val`: [c, val].  The sentry fails on a stream that is not good or with
\* nothing but white space left; else the text is accumulated and converted.
Extract(c) ==
    IF ~Good(c)
    THEN [c |-> [c EXCEPT !.failbit = TRUE, !.numAt = c.pos, !.numText = <<>>],
          val |-> Zero]
    ELSE LET p == SkipWs(c.expr, c.pos) IN
         IF p >= Len(c.expr)
         THEN [c |-> [c EXCEPT !.pos = p, !.eofbit = TRUE, !.failbit = TRUE,
                               !.numAt = p, !.numText = <<>>],
               val |-> Zero]
         ELSE LET a == ExtractFloat(c.expr, p + 1)
                  v == ConvertToV(a.xtrc)
              IN  [c |-> [c EXCEPT !.pos = a.i - 1,
                                   !.eofbit = a.i > Len(c.expr),
                                   !.failbit = v.fail,
                                   !.numAt = p,
                                   !.numText = SubSeq(c.expr, p + 1, a.i - 1)],
                   val |-> v.val]

\* ------------------------------------------------------------------ the call stack

NoExc == "none"

DivisionByZero == "Division by zero"

MismatchedParentheses == "Mismatched parentheses"

InvalidNumber == "Invalid number"

Frame(fn) == [fn |-> fn, pc |-> "entry", left |-> Zero, op |-> "none"]

Top(c) == c.stack[Len(c.stack)]

Running(c) == c.pc = "parsing" /\ c.exc = NoExc /\ c.stack # <<>>

At(c, fn, pcs) == Running(c) /\ Top(c).fn = fn /\ Top(c).pc \in pcs

\* The top frame replaced by f and a call of fn made.
Call(c, f, fn) ==
    [c EXCEPT !.stack = Append(SubSeq(c.stack, 1, Len(c.stack) - 1), f) \o <<Frame(fn)>>]

\* The top frame returns v to its caller.
Return(c, v) ==
    [c EXCEPT !.stack = SubSeq(c.stack, 1, Len(c.stack) - 1), !.ret = v]

SetTop(c, f) == [c EXCEPT !.stack[Len(c.stack)] = f]

\* throw std::runtime_error(msg)
Throw(c, msg) == [c EXCEPT !.exc = msg]

\* The left operand of the loop: the first operand just returned, or the
\* intermediate result of the operators applied so far.
Left(c) == IF Top(c).pc = "left" THEN c.ret ELSE Top(c).left

\* ------------------------------------------------------------------ the steps

\* on_button_clicked("="): res = 0.0, an empty error, and evaluate_expression
\* calls parse_expression, which calls parse_add_sub on a fresh stream.
CanClickEquals(c) == c.pc = "idle"

DoClickEquals(c) ==
    [c EXCEPT !.pc = "parsing", !.result = Zero, !.error = "",
              !.stack = <<Frame("add_sub")>>]

\* parse_add_sub: double left = parse_mul_div(in);
CanAddSubCall(c) == At(c, "add_sub", {"entry"})

DoAddSubCall(c) == Call(c, [Top(c) EXCEPT !.pc = "left"], "mul_div")

\* Mutants of DoAddSubOperator: the right operand read by parse_number (no
\* precedence), and by parse_add_sub (right recursion).
DoAddSubOperator_Number(c) ==
    [Call(Get(Peek(c)),
          [Top(c) EXCEPT !.pc = "right", !.left = Left(c), !.op = NextChar(c)],
          "number")
        EXCEPT !.atoms = c.atoms \cup {c.pos + 1}]

DoAddSubOperator_RightRec(c) ==
    Call(Get(Peek(c)),
         [Top(c) EXCEPT !.pc = "right", !.left = Left(c), !.op = NextChar(c)],
         "add_sub")

\* parse_add_sub: op = in.peek() is '+' or '-': in.get(); parse_mul_div(in)
CanAddSubOperator(c) == At(c, "add_sub", {"left", "loop"}) /\ NextChar(c) \in {"+", "-"}

DoAddSubOperator(c) ==
    Call(Get(Peek(c)),
         [Top(c) EXCEPT !.pc = "right", !.left = Left(c), !.op = NextChar(c)],
         "mul_div")

\* parse_add_sub: any other op: break; return left;
CanAddSubReturn(c) == At(c, "add_sub", {"left", "loop"}) /\ NextChar(c) \notin {"+", "-"}

DoAddSubReturn(c) == Return(Peek(c), Left(c))

\* Mutant of DoAddSubApply: the sum is accumulated in the caller's result.
DoAddSubApply_IntoResult(c) ==
    LET f == Top(c)
        v == IF f.op = "+" THEN DAdd(f.left, c.ret) ELSE DSub(f.left, c.ret)
    IN  [SetTop(c, [f EXCEPT !.pc = "loop", !.left = v])
            EXCEPT !.applied = c.applied + 1, !.result = v]

\* parse_add_sub: if (op == '+') left += right; else left -= right;
CanAddSubApply(c) == At(c, "add_sub", {"right"})

DoAddSubApply(c) ==
    LET f == Top(c)
        v == IF f.op = "+" THEN DAdd(f.left, c.ret) ELSE DSub(f.left, c.ret)
    IN  [SetTop(c, [f EXCEPT !.pc = "loop", !.left = v]) EXCEPT !.applied = c.applied + 1]

\* parse_mul_div: double left = parse_number(in);
CanMulDivCall(c) == At(c, "mul_div", {"entry"})

DoMulDivCall(c) ==
    [Call(c, [Top(c) EXCEPT !.pc = "left"], "number")
        EXCEPT !.atoms = c.atoms \cup {c.pos}]

\* parse_mul_div: op = in.peek() is '*' or '/': in.get(); parse_number(in)
CanMulDivOperator(c) == At(c, "mul_div", {"left", "loop"}) /\ NextChar(c) \in {"*", "/"}

DoMulDivOperator(c) ==
    LET d == Get(Peek(c))
    IN  [Call(d, [Top(c) EXCEPT !.pc = "right", !.left = Left(c), !.op = NextChar(c)],
              "number")
            EXCEPT !.atoms = c.atoms \cup {d.pos}]

\* parse_mul_div: any other op: break; return left;
CanMulDivReturn(c) == At(c, "mul_div", {"left", "loop"}) /\ NextChar(c) \notin {"*", "/"}

DoMulDivReturn(c) == Return(Peek(c), Left(c))

\* Mutant of DoMulDivApply: the divisor is not compared with zero.
DoMulDivApply_NoZeroCheck(c) ==
    LET f == Top(c)
        v == IF f.op = "*" THEN DMul(f.left, c.ret) ELSE DDiv(f.left, c.ret)
    IN  [SetTop(c, [f EXCEPT !.pc = "loop", !.left = v]) EXCEPT !.applied = c.applied + 1]

\* parse_mul_div: if (op == '*') left *= right;
\*                else { if (right == 0.0) throw "Division by zero"; left /= right; }
CanMulDivApply(c) == At(c, "mul_div", {"right"})

DoMulDivApply(c) ==
    LET f == Top(c) IN
    IF f.op = "*"
    THEN [SetTop(c, [f EXCEPT !.pc = "loop", !.left = DMul(f.left, c.ret)])
             EXCEPT !.applied = c.applied + 1]
    ELSE IF IsZero(c.ret)
    THEN Throw(c, DivisionByZero)
    ELSE [SetTop(c, [f EXCEPT !.pc = "loop", !.left = DDiv(f.left, c.ret)])
             EXCEPT !.applied = c.applied + 1]

\* parse_number: while (isspace(in.peek())) in.get();  one turn of the loop
CanNumberSkipSpace(c) == At(c, "number", {"entry"}) /\ IsSpace(NextChar(c))

DoNumberSkipSpace(c) == Get(Peek(c))

\* Mutant of DoNumberOpenParen: the sub-expression is read by a stream of its
\* own, which starts at the beginning of the text.
DoNumberOpenParen_Restart(c) ==
    Call([Get(Peek(Peek(c))) EXCEPT !.pos = 0], [Top(c) EXCEPT !.pc = "paren"], "add_sub")

\* parse_number: in.peek() == '(': in.get(); double val = parse_add_sub(in);
CanNumberOpenParen(c) ==
    At(c, "number", {"entry"}) /\ ~IsSpace(NextChar(c)) /\ NextChar(Peek(c)) = "("

DoNumberOpenParen(c) ==
    Call(Get(Peek(Peek(c))), [Top(c) EXCEPT !.pc = "paren"], "add_sub")

\* Mutant of DoNumberCloseParen: the character after the sub-expression is
\* consumed without being compared with ')'.
DoNumberCloseParen_NoCheck(c) == Return(Get(c), c.ret)

\* parse_number: if (in.get() != ')') throw "Mismatched parentheses"; return val;
CanNumberCloseParen(c) == At(c, "number", {"paren"})

DoNumberCloseParen(c) ==
    IF NextChar(c) # ")"
    THEN Throw(Get(c), MismatchedParentheses)
    ELSE Return(Get(c), c.ret)

\* Mutant of DoNumberExtract: the white space after the number is consumed too.
DoNumberExtract_TrailingSpace(c) ==
    LET r == Extract(Peek(Peek(c)))
    IN  IF r.c.failbit THEN Throw(r.c, InvalidNumber)
        ELSE Return([r.c EXCEPT !.pos = SkipWs(c.expr, r.c.pos)], r.val)

\* parse_number: in >> val; if (in.fail()) throw "Invalid number"; return val;
CanNumberExtract(c) ==
    At(c, "number", {"entry"}) /\ ~IsSpace(NextChar(c)) /\ NextChar(Peek(c)) # "("

DoNumberExtract(c) ==
    LET r == Extract(Peek(Peek(c)))
    IN  IF r.c.failbit THEN Throw(r.c, InvalidNumber) ELSE Return(r.c, r.val)

\* Mutant of DoUnwind: a parse_number frame waiting for its ')' reports the
\* missing parenthesis in place of the error that passes through it.
DoUnwind_Override(c) ==
    [c EXCEPT !.stack = SubSeq(c.stack, 1, Len(c.stack) - 1),
              !.exc = IF Top(c).fn = "number" /\ Top(c).pc = "paren"
                      THEN MismatchedParentheses ELSE c.exc]

\* The exception leaves one frame of the parser.
CanUnwind(c) == c.pc = "parsing" /\ c.exc # NoExc /\ c.stack # <<>>

DoUnwind(c) == [c EXCEPT !.stack = SubSeq(c.stack, 1, Len(c.stack) - 1)]

\* Mutant of DoCatch: the message of the exception is dropped.
DoCatch_NoMessage(c) == [c EXCEPT !.exc = NoExc, !.ok = FALSE, !.pc = "done"]

\* evaluate_expression: catch (const std::exception& e) { error = e.what(); return false; }
CanCatch(c) == c.pc = "parsing" /\ c.exc # NoExc /\ c.stack = <<>>

DoCatch(c) == [c EXCEPT !.error = c.exc, !.exc = NoExc, !.ok = FALSE, !.pc = "done"]

\* Mutant of DoEvalReturn: text left unread after the top-level parse_add_sub is
\* rejected.
DoEvalReturn_RejectTrailing(c) ==
    IF c.pos < Len(c.expr)
    THEN [c EXCEPT !.error = InvalidNumber, !.ok = FALSE, !.pc = "done"]
    ELSE [c EXCEPT !.result = c.ret, !.ok = TRUE, !.pc = "done"]

\* evaluate_expression: result = parse_expression(expr); return true;
CanEvalReturn(c) == c.pc = "parsing" /\ c.exc = NoExc /\ c.stack = <<>>

DoEvalReturn(c) == [c EXCEPT !.result = c.ret, !.ok = TRUE, !.pc = "done"]

\* ------------------------------------------------------------------ the actions

ClickEquals == CanClickEquals(Cfg) /\ Becomes(DoClickEquals(Cfg))

AddSubCall == CanAddSubCall(Cfg) /\ Becomes(DoAddSubCall(Cfg))

AddSubOperator == CanAddSubOperator(Cfg) /\ Becomes(DoAddSubOperator(Cfg))

AddSubReturn == CanAddSubReturn(Cfg) /\ Becomes(DoAddSubReturn(Cfg))

AddSubApply == CanAddSubApply(Cfg) /\ Becomes(DoAddSubApply(Cfg))

MulDivCall == CanMulDivCall(Cfg) /\ Becomes(DoMulDivCall(Cfg))

MulDivOperator == CanMulDivOperator(Cfg) /\ Becomes(DoMulDivOperator(Cfg))

MulDivReturn == CanMulDivReturn(Cfg) /\ Becomes(DoMulDivReturn(Cfg))

MulDivApply == CanMulDivApply(Cfg) /\ Becomes(DoMulDivApply(Cfg))

NumberSkipSpace == CanNumberSkipSpace(Cfg) /\ Becomes(DoNumberSkipSpace(Cfg))

NumberOpenParen == CanNumberOpenParen(Cfg) /\ Becomes(DoNumberOpenParen(Cfg))

NumberCloseParen == CanNumberCloseParen(Cfg) /\ Becomes(DoNumberCloseParen(Cfg))

NumberExtract == CanNumberExtract(Cfg) /\ Becomes(DoNumberExtract(Cfg))

Unwind == CanUnwind(Cfg) /\ Becomes(DoUnwind(Cfg))

Catch == CanCatch(Cfg) /\ Becomes(DoCatch(Cfg))

EvalReturn == CanEvalReturn(Cfg) /\ Becomes(DoEvalReturn(Cfg))

\* ------------------------------------------------------------------ the inputs

\* Characters the bounded expressions are drawn from: digits, the decimal point,
\* the operators, the parentheses, white space and a letter.
Alphabet == {"0", "3", ".", "+", "-", "*", "/", "(", ")", " ", "x"}

Strings(n) == UNION {[1..k -> Alphabet] : k \in 0..n}

Nums == {<<"0">>, <<"2">>, <<"3">>, <<"1", "0">>}

Ops == {"+", "-", "*", "/"}

\* a op1 b op2 c,  (a op1 b) op2 c  and  a op1 (b op2 c)
Chains ==
    {a \o <<o1>> \o b \o <<o2>> \o c : a \in Nums, b \in Nums, c \in Nums, o1 \in Ops, o2 \in Ops}

ParenLeft ==
    {<<"(">> \o a \o <<o1>> \o b \o <<")", o2>> \o c :
        a \in Nums, b \in Nums, c \in Nums, o1 \in Ops, o2 \in Ops}

ParenRight ==
    {a \o <<o1, "(">> \o b \o <<o2>> \o c \o <<")">> :
        a \in Nums, b \in Nums, c \in Nums, o1 \in Ops, o2 \in Ops}

\* Expressions named by the specification, and longer ones of each shape.
Examples ==
    { <<"2", "+", "2", "*", "3">>,
      <<"(", "2", "+", "2", ")", "*", "3">>,
      <<"1", "0", "/", "0">>,
      <<"1", "/", "(", "2", "-", "2", ")">>,
      <<"(", "1", "+", "2">>,
      <<"1", "+", "2", ")">>,
      <<"1", "0", "-", "2", "-", "3">>,
      <<"2", " ", "+", "3">>,
      <<"(", "1", "+", "2", " ", ")">>,
      <<" ", "2", "+", " ", "(", " ", "3", "*", "\t", "2", ")">>,
      <<"(", "1", "/", "0">>,
      <<"(", "x", "+", "1", "/", "0">>,
      <<"1", ".", "2", ".", "3">>,
      <<"1", ".", "5", "*", "4">>,
      <<"-", "5">>,
      <<"+", "5">>,
      <<"2", "-", "-", "5">>,
      <<"2", "e", "2">>,
      <<"2", "e">>,
      <<"2", "e", "+">>,
      <<"2", "e", "-", "1", "+", "1">>,
      <<"2", ".", "5", "E", "1", "x">>,
      <<"(", "(", "2", "+", "3", ")", "*", "(", "1", "0", "-", "3", ")", ")", "/", "5">>,
      <<"8", "/", "4", "/", "2", "*", "3">>,
      <<"2", "+", "3", "*", "x">>,
      <<"3", "+", "3", "+">>,
      <<"(", "(", "3", ")">>,
      <<"(", "3", ")", ")", "+", "3">>,
      <<"3", "*", "(", ")">>,
      <<"(", "3", "*", "2", "x", ")">>,
      <<"1", "0", ".", "5", "/", ".", "5", "-", "2", "1">>,
      <<"2", "*", "(", "3", "/", "(", "3", "-", "3", ")", ")", "+", "x">> }

Inputs == Strings(MaxLen) \cup Chains \cup ParenLeft \cup ParenRight \cup Examples

\* ------------------------------------------------------------------ the specification

\* The project of no launch.
NoProject == [name |-> <<>>, type |-> "", path |-> <<>>]

\* main has not been entered.
MainIdle ==
    /\ mpc = "start"
    /\ repoIdx = 1
    /\ dirExists = FALSE
    /\ repoDir = [d \in {} |-> "absent"]
    /\ projects = <<>>
    /\ menus = [ty \in {} |-> <<>>]
    /\ exitStatus = "running"
    /\ dirCreated = FALSE
    /\ cloned = {}
    /\ removeFailed = FALSE

\* No project is being launched and the logs are empty.
LaunchIdle ==
    /\ lpc = "idle"
    /\ proj = NoProject
    /\ outLog = <<>>
    /\ errLog = <<>>
    /\ events = <<>>

Init ==
    /\ MainIdle
    /\ LaunchIdle
    /\ expr \in Inputs
    /\ pc = "idle"
    /\ pos = 0
    /\ eofbit = FALSE
    /\ failbit = FALSE
    /\ stack = <<>>
    /\ ret = Zero
    /\ exc = NoExc
    /\ result = Zero
    /\ error = ""
    /\ ok = FALSE
    /\ atoms = {}
    /\ numAt = -1
    /\ numText = <<>>
    /\ applied = 0

Next ==
    \/ ClickEquals
    \/ AddSubCall
    \/ AddSubOperator
    \/ AddSubReturn
    \/ AddSubApply
    \/ MulDivCall
    \/ MulDivOperator
    \/ MulDivReturn
    \/ MulDivApply
    \/ NumberSkipSpace
    \/ NumberOpenParen
    \/ NumberCloseParen
    \/ NumberExtract
    \/ Unwind
    \/ Catch
    \/ EvalReturn

Spec == Init /\ [][Next]_vars

\* The one step enabled in a configuration that is not final.
Step(c) ==
    CASE CanClickEquals(c) -> DoClickEquals(c)
      [] CanAddSubCall(c) -> DoAddSubCall(c)
      [] CanAddSubOperator(c) -> DoAddSubOperator(c)
      [] CanAddSubReturn(c) -> DoAddSubReturn(c)
      [] CanAddSubApply(c) -> DoAddSubApply(c)
      [] CanMulDivCall(c) -> DoMulDivCall(c)
      [] CanMulDivOperator(c) -> DoMulDivOperator(c)
      [] CanMulDivReturn(c) -> DoMulDivReturn(c)
      [] CanMulDivApply(c) -> DoMulDivApply(c)
      [] CanNumberSkipSpace(c) -> DoNumberSkipSpace(c)
      [] CanNumberOpenParen(c) -> DoNumberOpenParen(c)
      [] CanNumberCloseParen(c) -> DoNumberCloseParen(c)
      [] CanNumberExtract(c) -> DoNumberExtract(c)
      [] CanUnwind(c) -> DoUnwind(c)
      [] CanCatch(c) -> DoCatch(c)
      [] CanEvalReturn(c) -> DoEvalReturn(c)

\* evaluate_expression run to its end from configuration c.
RECURSIVE Run(_)
Run(c) == IF c.pc = "done" THEN c ELSE Run(Step(c))

\* The state in which "=" is clicked on the entry text s.
Clicked(s) ==
    [expr |-> s, pc |-> "idle", pos |-> 0, eofbit |-> FALSE, failbit |-> FALSE,
     stack |-> <<>>, ret |-> Zero, exc |-> NoExc, result |-> Zero, error |-> "",
     ok |-> FALSE, atoms |-> {}, numAt |-> -1, numText |-> <<>>, applied |-> 0]

Done == pc = "done"

TypeOK ==
    /\ pc \in {"idle", "parsing", "done"}
    /\ pos \in 0..Len(expr)
    /\ Done => stack = <<>> /\ exc = NoExc

\* ------------------------------------------------------------------ reference semantics
\* The value of a text under the grammar
\*   add_sub := mul_div (('+'|'-') mul_div)*   mul_div := atom (('*'|'/') atom)*
\*   atom := '(' add_sub ')' | number
\* found by splitting the text at its last operator outside parentheses.

IsPlainNumber(t) ==
    /\ Len(t) >= 1
    /\ \A i \in 1..Len(t) : IsDigit(t[i]) \/ t[i] = "."
    /\ Cardinality({i \in 1..Len(t) : t[i] = "."}) <= 1
    /\ \E i \in 1..Len(t) : IsDigit(t[i])

RECURSIVE IntOf(_)
IntOf(d) ==
    IF d = <<>> THEN 0
    ELSE 10 * IntOf(SubSeq(d, 1, Len(d) - 1)) + DigitVal(d[Len(d)])

PlainValue(t) ==
    LET pt == {i \in 1..Len(t) : t[i] = "."}
        nf == IF pt = {} THEN 0 ELSE Len(t) - (CHOOSE i \in pt : TRUE)
    IN  Norm(IntOf(SelectSeq(t, IsDigit)), Pow10(nf))

ParenDepth(s, i) ==
    Cardinality({j \in 1..(i - 1) : s[j] = "("}) - Cardinality({j \in 1..(i - 1) : s[j] = ")"})

TopLevel(s, chars) == {i \in 1..Len(s) : s[i] \in chars /\ ParenDepth(s, i) = 0}

Max(S) == CHOOSE x \in S : \A y \in S : y <= x

RefApply(op, a, b) ==
    CASE op = "+" -> DAdd(a, b)
      [] op = "-" -> DSub(a, b)
      [] op = "*" -> DMul(a, b)
      [] op = "/" -> DDiv(a, b)

NoGrammar == [st |-> "nogrammar", val |-> Zero]

DivZero == [st |-> "divzero", val |-> Zero]

RefCombine(l, op, r) ==
    IF l.st = "nogrammar" \/ r.st = "nogrammar" THEN NoGrammar
    ELSE IF l.st = "divzero" \/ r.st = "divzero" THEN DivZero
    ELSE IF op = "/" /\ IsZero(r.val) THEN DivZero
    ELSE [st |-> "value", val |-> RefApply(op, l.val, r.val)]

RECURSIVE RefAddSub(_)
RECURSIVE RefMulDiv(_)
RECURSIVE RefAtom(_)

RefAddSub(s) ==
    LET P == TopLevel(s, {"+", "-"}) IN
    IF P = {} THEN RefMulDiv(s)
    ELSE LET i == Max(P)
         IN  RefCombine(RefAddSub(SubSeq(s, 1, i - 1)), s[i],
                        RefMulDiv(SubSeq(s, i + 1, Len(s))))

RefMulDiv(s) ==
    LET P == TopLevel(s, {"*", "/"}) IN
    IF P = {} THEN RefAtom(s)
    ELSE LET i == Max(P)
         IN  RefCombine(RefMulDiv(SubSeq(s, 1, i - 1)), s[i],
                        RefAtom(SubSeq(s, i + 1, Len(s))))

RefAtom(s) ==
    IF Len(s) >= 2 /\ s[1] = "(" /\ s[Len(s)] = ")"
    THEN RefAddSub(SubSeq(s, 2, Len(s) - 1))
    ELSE IF IsPlainNumber(s) THEN [st |-> "value", val |-> PlainValue(s)]
    ELSE NoGrammar

\* ------------------------------------------------------------------ claims

\* C1: for every expression of the grammar without white space and without a
\* division by zero, evaluate_expression succeeds with the value of the reference
\* evaluator, in which '*' and '/' bind tighter than '+' and '-' and parentheses
\* override precedence; "2+2*3" yields 8 and "(2+2)*3" yields 12.
C1_Precedence ==
    Done =>
        /\ LET r == RefAddSub(expr) IN r.st = "value" => ok /\ result = r.val
        /\ expr = <<"2", "+", "2", "*", "3">> => ok /\ result = <<8, 1>>
        /\ expr = <<"(", "2", "+", "2", ")", "*", "3">> => ok /\ result = <<12, 1>>

C1_Witness ==
    Done /\ expr = <<"2", "+", "2", "*", "3">> /\ ok /\ result = <<8, 1>>

\* The chains a op1 b op2 c of plain numbers whose operators have the same
\* precedence: the positions <<i, j>> of op1 and op2 in s.
SameLevel(o1, o2) == {o1, o2} \subseteq {"+", "-"} \/ {o1, o2} \subseteq {"*", "/"}

ChainSplits(s) ==
    {ij \in (1..Len(s)) \X (1..Len(s)) :
        /\ ij[1] < ij[2]
        /\ s[ij[1]] \in Ops /\ s[ij[2]] \in Ops /\ SameLevel(s[ij[1]], s[ij[2]])
        /\ IsPlainNumber(SubSeq(s, 1, ij[1] - 1))
        /\ IsPlainNumber(SubSeq(s, ij[1] + 1, ij[2] - 1))
        /\ IsPlainNumber(SubSeq(s, ij[2] + 1, Len(s)))}

\* The frame of the chain's level: parse_add_sub is the first frame, its
\* parse_mul_div the second.
ChainLevel(o) == IF o \in {"+", "-"} THEN 1 ELSE 2

\* C2: operators of the same precedence are applied strictly left to right: a
\* chain a op1 b op2 c yields (a op1 b) op2 c, and (a op1 b) is already computed
\* when op2 has been consumed; "10-2-3" yields 5 and never 11.
C2_LeftAssociative ==
    /\ \A ij \in ChainSplits(expr) :
        LET a   == PlainValue(SubSeq(expr, 1, ij[1] - 1))
            b   == PlainValue(SubSeq(expr, ij[1] + 1, ij[2] - 1))
            c   == PlainValue(SubSeq(expr, ij[2] + 1, Len(expr)))
            o1  == expr[ij[1]]
            o2  == expr[ij[2]]
            ab  == RefApply(o1, a, b)
            lvl == ChainLevel(o1)
        IN  (IsFinite(ab) /\ ~(o2 = "/" /\ IsZero(c))) =>
                /\ Done => ok /\ result = RefApply(o2, ab, c)
                /\ (pos >= ij[2] /\ Len(stack) >= lvl /\ stack[lvl].pc = "right")
                       => stack[lvl].op = o2 /\ stack[lvl].left = ab
    /\ Done /\ expr = <<"1", "0", "-", "2", "-", "3">> => ok /\ result = <<5, 1>>

C2_Witness ==
    Done /\ expr = <<"1", "0", "-", "2", "-", "3">> /\ ok /\ result = <<5, 1>>

\* The character of the expression at the read position.
CharAtCursor == IF pos < Len(expr) THEN expr[pos + 1] ELSE EOF

\* parse_mul_div is about to apply '/' to a right operand that is exactly zero.
ZeroDivisorPending ==
    At(Cfg, "mul_div", {"right"}) /\ Top(Cfg).op = "/" /\ IsZero(ret)

\* C3: a '/' whose right operand is exactly zero raises "Division by zero" and
\* the division is not computed; no successful result is non-finite, and an
\* expression of the grammar that divides by zero fails with that error, as
\* "10/0" and "1/(2-2)" do.
C3_DivisionByZero ==
    /\ [][ZeroDivisorPending =>
            /\ exc' = DivisionByZero
            /\ applied' = applied
            /\ stack' = stack
            /\ result' = result]_vars
    /\ [](Done /\ ok => IsFinite(result))
    /\ [](Done /\ RefAddSub(expr).st = "divzero" => ~ok /\ error = DivisionByZero)
    /\ [](Done /\ expr \in {<<"1", "0", "/", "0">>, <<"1", "/", "(", "2", "-", "2", ")">>}
             => ~ok /\ error = DivisionByZero)

C3_Witness ==
    /\ Done /\ ~ok /\ error = DivisionByZero
    /\ expr = <<"1", "/", "(", "2", "-", "2", ")">>

\* parse_number has its sub-expression's value and is about to read the ')'.
ClosePending == At(Cfg, "number", {"paren"})

\* C4: when the add_sub enclosed by a '(' returns, a character at the cursor
\* other than ')' (or the end of the input) raises "Mismatched parentheses"; a
\* ')' is consumed, alone, and the atom returns the value of the sub-expression.
\* "(1+2" fails with Mismatched parentheses.
C4_Parentheses ==
    /\ [][ClosePending =>
            IF CharAtCursor = ")"
            THEN /\ pos' = pos + 1
                 /\ exc' = NoExc
                 /\ ret' = ret
                 /\ stack' = SubSeq(stack, 1, Len(stack) - 1)
            ELSE exc' = MismatchedParentheses]_vars
    /\ [](Done /\ expr = <<"(", "1", "+", "2">> => ~ok /\ error = MismatchedParentheses)

C4_Witness ==
    Done /\ ~ok /\ error = MismatchedParentheses /\ expr = <<"(", "1", "+", "2">>

\* A decimal floating literal: an optional sign, digits with at most one decimal
\* point, an optional exponent of 'e' or 'E', an optional sign and digits.
IsExponent(t) ==
    /\ Len(t) >= 2
    /\ t[1] \in {"e", "E"}
    /\ LET d == IF IsSign(t[2]) THEN SubSeq(t, 3, Len(t)) ELSE SubSeq(t, 2, Len(t))
       IN  Len(d) >= 1 /\ \A i \in 1..Len(d) : IsDigit(d[i])

IsFloatLiteral(t) ==
    \E s \in 0..1 : \E m \in 1..Len(t) :
        /\ s = 1 => IsSign(t[1])
        /\ IsPlainNumber(SubSeq(t, s + 1, m))
        /\ m = Len(t) \/ IsExponent(SubSeq(t, m + 1, Len(t)))

\* t can be continued to a floating literal.
IsLiteralPrefix(t) == IsFloatLiteral(Append(t, "0"))

NoInvalidNumber == exc # InvalidNumber /\ error # InvalidNumber

Insert(s, p, ch) == SubSeq(s, 1, p) \o <<ch>> \o SubSeq(s, p + 1, Len(s))

\* What evaluate_expression hands back on the entry text s.
Outcome(s) == LET c == Run(Clicked(s)) IN <<c.ok, c.result, c.error>>

\* C6: white space is skipped only where an atom is about to be read: a white
\* space character inserted at a position where parse_number is entered never
\* changes the outcome, whereas white space right after a complete expression
\* ends the evaluation there ("2 +3" yields 2), and between a sub-expression and
\* its ')' it is a mismatched parenthesis ("(1+2 )").
C6_Whitespace ==
    Done =>
        /\ \A p \in atoms : \A w \in {" ", "\t"} :
               Outcome(Insert(expr, p, w)) = <<ok, result, error>>
        /\ \A k \in 1..(Len(expr) - 1) :
               /\ (IsSpace(expr[k + 1]) /\ RefAddSub(SubSeq(expr, 1, k)).st = "value")
                      => ok /\ result = RefAddSub(SubSeq(expr, 1, k)).val /\ pos = k
               /\ (IsSpace(expr[k + 1]) /\ expr[1] = "("
                     /\ RefAddSub(SubSeq(expr, 2, k)).st = "value")
                      => ~ok /\ error = MismatchedParentheses
        /\ expr = <<"2", " ", "+", "3">> => ok /\ result = <<2, 1>>
        /\ expr = <<"(", "1", "+", "2", " ", ")">> => ~ok /\ error = MismatchedParentheses

C6_Witness ==
    Done /\ expr = <<"2", " ", "+", "3">> /\ ok /\ result = <<2, 1>> /\ pos = 1

Messages == {DivisionByZero, MismatchedParentheses, InvalidNumber}

\* C7: once an error is raised no character is consumed and no operator applied
\* any more, and the error the caller receives is that first error: "(1/0"
\* reports Division by zero, "(x+1/0" reports Invalid number.
C7_FirstError ==
    /\ [][exc # NoExc =>
            /\ pos' = pos
            /\ applied' = applied
            /\ result' = result
            /\ \/ exc' = exc /\ error' = error /\ pc' = "parsing"
               \/ exc' = NoExc /\ error' = exc /\ pc' = "done" /\ ~ok']_vars
    /\ [](Done /\ expr = <<"(", "1", "/", "0">> => ~ok /\ error = DivisionByZero)
    /\ [](Done /\ expr = <<"(", "x", "+", "1", "/", "0">> => ~ok /\ error = InvalidNumber)

C7_Witness ==
    Done /\ ~ok /\ error = DivisionByZero /\ expr = <<"(", "1", "/", "0">> /\ pos = 4

\* C8: evaluate_expression ends in one of two ways: true, with result the value
\* parse_expression returned and error untouched, or false, with error set and
\* result as the caller passed it; result is not written while parsing.
C8_Atomic ==
    /\ pc = "parsing" => result = Zero /\ error = ""
    /\ Done => \/ ok /\ result = ret /\ error = ""
               \/ ~ok /\ error \in Messages /\ result = Zero

C8_Witness ==
    Done /\ ~ok /\ applied > 0 /\ ~IsZero(ret) /\ result = Zero /\ error = InvalidNumber

\* C9: the read position never decreases and never passes the end of the text,
\* in the nested evaluation of a parenthesis as elsewhere.
C9_CursorMonotonic == [][pos' >= pos /\ pos' <= Len(expr)]_vars

C9_Witness ==
    /\ Done /\ ok /\ pos = 16
    /\ expr = <<"(", "(", "2", "+", "3", ")", "*", "(", "1", "0", "-", "3", ")", ")", "/", "5">>

\* C10: the message of a failed evaluation is one of "Division by zero",
\* "Mismatched parentheses" and "Invalid number".
C10_ErrorMessages ==
    /\ exc \in Messages \cup {NoExc}
    /\ Done /\ ~ok => error \in Messages

C10_Witness == Done /\ ~ok /\ expr = <<>> /\ error = InvalidNumber

\* The number the text e ends with: its longest suffix of digits and points.
RECURSIVE LastNumber(_)
LastNumber(e) ==
    IF e = <<>> \/ ~(IsDigit(e[Len(e)]) \/ e[Len(e)] = ".") THEN <<>>
    ELSE Append(LastNumber(SubSeq(e, 1, Len(e) - 1)), e[Len(e)])

\* The character ch continues the number that the text e ends with.
ContinuesNumber(e, ch) ==
    LastNumber(e) # <<>> /\ IsLiteralPrefix(Append(LastNumber(e), ch))

\* C12 as stated: an expression e of the grammar followed by any text that does
\* not start with an operator evaluates to the value of e.
C12_Original ==
    Done =>
        \A k \in 1..(Len(expr) - 1) :
            LET r == RefAddSub(SubSeq(expr, 1, k))
            IN  (r.st = "value" /\ expr[k + 1] \notin Ops)
                    => ok /\ result = r.val /\ error = ""

\* C12, amended: an expression e of the grammar followed by text whose first
\* character is neither an operator nor a continuation of the number e ends
\* with (a digit, 'e' or 'E', or a decimal point when that number has none)
\* evaluates to the value of e, the text after e being left unread and
\* unvalidated; "1+2)" yields 3.
C12_TrailingInput ==
    Done =>
        /\ \A k \in 1..(Len(expr) - 1) :
               LET e == SubSeq(expr, 1, k)
                   r == RefAddSub(e)
               IN  (r.st = "value" /\ expr[k + 1] \notin Ops
                      /\ ~ContinuesNumber(e, expr[k + 1]))
                       => ok /\ result = r.val /\ error = "" /\ pos = k
        /\ expr = <<"1", "+", "2", ")">> => ok /\ result = <<3, 1>>

C12_Witness ==
    Done /\ expr = <<"1", "+", "2", ")">> /\ ok /\ result = <<3, 1>> /\ pos = 3

\* ------------------------------------------------------------------------
\* src/main.cpp: main
\* ------------------------------------------------------------------------

\* The repositories cloned before the extraction; a local directory is the
\* sequence of the components of its path.
HtmlRepos ==
    << [url |-> "https://github.com/IEatBricks129/kerdle.git",
        local_dir |-> <<"Projects", "html", "kerdle">>],
       [url |-> "https://github.com/IEatBricks129/ACEDetail.git",
        local_dir |-> <<"Projects", "html", "ACEDetail">>],
       [url |-> "https://github.com/IEatBricks129/IEatBricks.git",
        local_dir |-> <<"Projects", "html", "IEatBricks">>] >>

\* The repositories cloned for the project list.
ProjectRepos ==
    << [url |-> "https://github.com/IEatBricks129/kerdle.git",
        local_dir |-> <<"Projects", "html", "kerdle">>],
       [url |-> "https://github.com/IEatBricks129/ACEDetail.git",
        local_dir |-> <<"Projects", "html", "ACEDetail">>],
       [url |-> "https://github.com/IEatBricks129/IEatBricks.git",
        local_dir |-> <<"Projects", "html", "IEatBricks">>] >>

\* The target directories under the temporary directory.
Dirs ==
    {HtmlRepos[k].local_dir : k \in 1..Len(HtmlRepos)} \cup
    {ProjectRepos[k].local_dir : k \in 1..Len(ProjectRepos)}

\* local_dir.find(sub + "/") != npos: a component sub followed by another one.
HasDir(local_dir, sub) ==
    \E k \in 1..(Len(local_dir) - 1) : local_dir[k] = sub

\* local_dir.substr(local_dir.find_last_of('/') + 1)
BaseName(local_dir) == local_dir[Len(local_dir)]

\* The display name of an HTML project; a name is the sequence of the pieces
\* it is concatenated from.
HtmlName(base) ==
    CASE base = "ACEDetail"  -> <<"Ace Detail (HTML)">>
      [] base = "IEatBricks" -> <<"My Portfolio Site (HTML)">>
      [] base = "kerdle"     -> <<"Kerdle :) (HTML)">>
      [] OTHER               -> <<base, " (HTML)">>

\* The outcomes of `git clone <url> <target>` on a target directory in state
\* st: into a directory that holds files git refuses and leaves it alone;
\* otherwise the clone succeeds and fills the directory, or fails (no
\* network, no git) and leaves none behind.
GitClone(st) ==
    IF st # "absent"
    THEN {[code |-> 128, dir |-> st]}
    ELSE {[code |-> 0, dir |-> "cloned"], [code |-> 128, dir |-> "absent"]}

\* ~TempDirCleanup: an existing directory is removed, unless remove_all
\* reports an error.
TempDirCleanup(exists) ==
    IF exists
    THEN {[exists |-> FALSE, failed |-> FALSE], [exists |-> TRUE, failed |-> TRUE]}
    ELSE {[exists |-> FALSE, failed |-> FALSE]}

\* An exception no handler catches ends in std::terminate; whether the stack
\* is unwound before, and so whether the destructor runs, is
\* implementation-defined.
Terminate(exists) ==
    TempDirCleanup(exists) \cup {[exists |-> exists, failed |-> FALSE]}

\* main ends with status st after the outcome o of the cleanup.
MainExit(st, o) ==
    /\ mpc' = "exited"
    /\ exitStatus' = st
    /\ dirExists' = o.exists
    /\ removeFailed' = (removeFailed \/ o.failed)

\* main returns st: cleanup_on_exit is destroyed.
MainReturn(st) ==
    \E o \in TempDirCleanup(dirExists) : MainExit(st, o)

\* An exception leaves main.
MainThrow ==
    \E o \in Terminate(dirExists) : MainExit("terminate", o)

\* The temporary directory is named and created.
MainCreateDir ==
    /\ mpc = "start"
    /\ mpc' = "clone1"
    /\ repoIdx' = 1
    /\ dirExists' = TRUE
    /\ dirCreated' = TRUE
    /\ repoDir' = [d \in Dirs |-> "absent"]
    /\ UNCHANGED <<projects, menus, exitStatus, cloned, removeFailed>>
    /\ UNCHANGED <<calcVars, launchVars>>

\* create_directories throws.
MainCreateDirThrows ==
    /\ mpc = "start"
    /\ MainThrow
    /\ UNCHANGED <<repoIdx, repoDir, projects, menus, dirCreated, cloned>>
    /\ UNCHANGED <<calcVars, launchVars>>

\* A clone loop moves to the next repository of repos, or on to position
\* after.
NextRepo(repos, after) ==
    IF repoIdx < Len(repos)
    THEN repoIdx' = repoIdx + 1 /\ mpc' = mpc
    ELSE repoIdx' = 1 /\ mpc' = after

\* One iteration of the first clone loop: a failure is only logged.
FirstClone ==
    /\ mpc = "clone1"
    /\ LET d == HtmlRepos[repoIdx].local_dir
       IN \E o \in GitClone(repoDir[d]) :
            /\ repoDir' = [repoDir EXCEPT ![d] = o.dir]
            /\ cloned' = IF o.code = 0 THEN cloned \cup {d} ELSE cloned
    /\ NextRepo(HtmlRepos, "extract")
    /\ UNCHANGED <<dirExists, projects, menus, exitStatus, dirCreated, removeFailed>>
    /\ UNCHANGED <<calcVars, launchVars>>

\* extract_embedded_projects writes the embedded files below the temporary
\* directory; the embedded data decides into which target directories.
Extracted(into) ==
    [d \in Dirs |-> IF d \in into /\ repoDir[d] = "absent" THEN "other" ELSE repoDir[d]]

\* The extraction succeeds.
ExtractOk ==
    /\ mpc = "extract"
    /\ \E into \in SUBSET Dirs : repoDir' = Extracted(into)
    /\ mpc' = "clone2"
    /\ UNCHANGED <<repoIdx, dirExists, projects, menus, exitStatus, dirCreated,
                   cloned, removeFailed>>
    /\ UNCHANGED <<calcVars, launchVars>>

\* The extraction fails, after some of the files: main returns 1.
ExtractFails ==
    /\ mpc = "extract"
    /\ \E into \in SUBSET Dirs : repoDir' = Extracted(into)
    /\ MainReturn("1")
    /\ UNCHANGED <<repoIdx, projects, menus, dirCreated, cloned>>
    /\ UNCHANGED <<calcVars, launchVars>>

\* The project of a cloned repository; main_file is <<>> when no main.cpp is
\* found below a C++ project.
ProjectOf(repo, found) ==
    LET base == BaseName(repo.local_dir)
    IN IF HasDir(repo.local_dir, "html")
       THEN [name |-> HtmlName(base), type |-> "HTML",
             path |-> Append(repo.local_dir, "index.html")]
       ELSE IF HasDir(repo.local_dir, "cpp")
       THEN [name |-> <<base, " (C++)">>, type |-> "C++",
             path |-> IF found THEN Append(repo.local_dir, "main.cpp") ELSE <<>>]
       ELSE [name |-> <<>>, type |-> "", path |-> <<>>]

\* One iteration of the second clone loop: the repository is cloned again
\* and, when that clone succeeds, added to the project list.
SecondClone ==
    /\ mpc = "clone2"
    /\ LET repo == ProjectRepos[repoIdx]
           d == repo.local_dir
       IN \E o \in GitClone(repoDir[d]) :
            /\ repoDir' = [repoDir EXCEPT ![d] = o.dir]
            /\ cloned' = IF o.code = 0 THEN cloned \cup {d} ELSE cloned
            /\ IF o.code # 0
               THEN /\ projects' = projects
                    /\ NextRepo(ProjectRepos, "window")
                    /\ UNCHANGED <<dirExists, exitStatus, removeFailed>>
               ELSE IF HasDir(d, "cpp") /\ ~HasDir(d, "html")
               THEN \* the directory is scanned for main.cpp
                    \E scan \in {"found", "none", "throws"} :
                       IF scan = "throws"
                       THEN /\ MainThrow
                            /\ UNCHANGED <<repoIdx, projects>>
                       ELSE /\ projects' =
                                 IF scan = "found"
                                 THEN Append(projects, ProjectOf(repo, TRUE))
                                 ELSE projects
                            /\ NextRepo(ProjectRepos, "window")
                            /\ UNCHANGED <<dirExists, exitStatus, removeFailed>>
               ELSE /\ projects' =
                         IF ProjectOf(repo, FALSE).path # <<>>
                         THEN Append(projects, ProjectOf(repo, FALSE))
                         ELSE projects
                    /\ NextRepo(ProjectRepos, "window")
                    /\ UNCHANGED <<dirExists, exitStatus, removeFailed>>
    /\ UNCHANGED <<menus, dirCreated>>
    /\ UNCHANGED <<calcVars, launchVars>>

\* The projects of type ty, in the order of the list.
OfType(ps, ty) == SelectSeq(ps, LAMBDA q : q.type = ty)

\* MainWindow::MainWindow: one dropdown per project type, one item per
\* project of the type.
GroupByType(ps) ==
    [ty \in {ps[k].type : k \in 1..Len(ps)} |-> OfType(ps, ty)]

\* The application and its window are constructed.
CreateWindow ==
    /\ mpc = "window"
    /\ mpc' = "gui"
    /\ menus' = GroupByType(projects)
    /\ UNCHANGED <<repoIdx, dirExists, repoDir, projects, exitStatus, dirCreated,
                   cloned, removeFailed>>
    /\ UNCHANGED <<calcVars, launchVars>>

\* Gtk::Application::create and app->run initialise GTK with gtk_init, which
\* ends the process with exit(1) when no display can be opened: exit does
\* not destroy the automatic object cleanup_on_exit.
GtkInitFails ==
    /\ mpc = "window"
    /\ MainExit("exit", [exists |-> dirExists, failed |-> FALSE])
    /\ UNCHANGED <<repoIdx, repoDir, projects, menus, dirCreated, cloned>>
    /\ UNCHANGED <<calcVars, launchVars>>

\* app->run(window) returns; main returns its result.
GuiClose ==
    /\ mpc = "gui"
    /\ lpc = "idle"
    /\ MainReturn("0")
    /\ UNCHANGED <<repoIdx, repoDir, projects, menus, dirCreated, cloned>>
    /\ UNCHANGED <<calcVars, launchVars>>


\* ------------------------------------------------------------------------
\* src/main.cpp: MainWindow::launch_project
\* ------------------------------------------------------------------------

\* One append to a text buffer: the fixed text and what is inserted into it.
Entry(msg, arg) == [msg |-> msg, arg |-> arg]

\* What a command prints, as the lines read from its pipe.
Outputs == {<<>>, <<"line">>}

\* The results of pclose: -1 when it fails, else the exit status of the command.
PcloseResults == {-1, 0, 256}

\* The results of std::system for the HTML opener.
SystemResults == {0, 256}

\* A command of the launch is started, or has exited with a status.
Started(cmd) == [cmd |-> cmd, ev |-> "start", code |-> 0, out |-> <<>>]
Exited(cmd, code, out) == [cmd |-> cmd, ev |-> "exit", code |-> code, out |-> out]

\* project.name.find("Calculator") != npos
HasCalculator(name) == \E k \in 1..Len(name) : name[k] = "Calculator"

\* launch_project is entered for project q: both logs are cleared and the
\* attempt is announced.
Entered(q) ==
    /\ mpc = "gui"
    /\ lpc = "idle"
    /\ \E ty \in DOMAIN menus : \E k \in 1..Len(menus[ty]) : menus[ty][k] = q
    /\ proj' = q

Attempt(q) == <<Entry("Attempting to launch: ", <<q.name, q.type, q.path>>)>>

\* An HTML project is opened with the system's opener.
LaunchHtml ==
    /\ \E q \in {projects[k] : k \in 1..Len(projects)} :
         /\ Entered(q)
         /\ q.type = "HTML"
         /\ \E res \in SystemResults :
              /\ events' = <<Started("open"), Exited("open", res, <<>>)>>
              /\ IF res # 0
                 THEN /\ outLog' = Attempt(q) \o <<Entry("Executing command: ", <<q.path>>)>>
                      /\ errLog' = <<Entry("Error launching HTML project. Command returned: ", <<res>>)>>
                 ELSE /\ outLog' = Attempt(q) \o
                                     <<Entry("Executing command: ", <<q.path>>),
                                       Entry("HTML project launched successfully.", <<>>)>>
                      /\ errLog' = <<>>
    /\ lpc' = "idle"
    /\ UNCHANGED <<calcVars, mainVars>>

\* The calculator window is created, unless its construction throws.
LaunchCalculator ==
    /\ \E q \in {projects[k] : k \in 1..Len(projects)} :
         /\ Entered(q)
         /\ q.type # "HTML" /\ HasCalculator(q.name)
         /\ \E thrown \in BOOLEAN :
              IF thrown
              THEN /\ outLog' = Attempt(q)
                   /\ errLog' = <<Entry("Error launching calculator: ", <<"what">>)>>
              ELSE /\ outLog' = Attempt(q) \o <<Entry("Calculator GUI launched.", <<>>)>>
                   /\ errLog' = <<>>
    /\ events' = <<>>
    /\ lpc' = "idle"
    /\ UNCHANGED <<calcVars, mainVars>>

\* A project of any other type is refused.
LaunchUnsupported ==
    /\ \E q \in {projects[k] : k \in 1..Len(projects)} :
         /\ Entered(q)
         /\ q.type # "HTML" /\ ~HasCalculator(q.name) /\ q.type # "C++"
         /\ outLog' = Attempt(q)
         /\ errLog' = <<Entry("Unsupported project type for launching: ", <<q.type>>)>>
    /\ events' = <<>>
    /\ lpc' = "idle"
    /\ UNCHANGED <<calcVars, mainVars>>

\* A C++ project: the compile command is started through popen, unless
\* popen fails.
LaunchCpp ==
    /\ \E q \in {projects[k] : k \in 1..Len(projects)} :
         /\ Entered(q)
         /\ q.type # "HTML" /\ ~HasCalculator(q.name) /\ q.type = "C++"
         /\ outLog' = Attempt(q) \o <<Entry("Compiling C++ project: ", <<q.path>>)>>
    /\ \E opened \in BOOLEAN :
         IF opened
         THEN /\ lpc' = "compiling"
              /\ events' = <<Started("compile")>>
              /\ errLog' = <<>>
         ELSE /\ lpc' = "idle"
              /\ events' = <<>>
              /\ errLog' = <<Entry("Error: Could not execute compile command.", <<>>)>>
    /\ UNCHANGED <<calcVars, mainVars>>

\* The step after the compiler's pipe is closed with every line of the
\* compiler ignored.
DoCompileClose_IgnoreResult(out, res) ==
    /\ lpc' = "compiled"
    /\ outLog' = outLog \o <<Entry("Compilation successful.", <<>>),
                             Entry("Running C++ project: ", <<proj.path>>)>>
    /\ errLog' = errLog

\* The step after the compiler's pipe is read to its end (out) and closed
\* (res).
DoCompileClose(out, res) ==
    IF res = -1
    THEN /\ lpc' = "idle"
         /\ outLog' = outLog
         /\ errLog' = Append(errLog, Entry("Error: Failed to close compile pipe.", <<>>))
    ELSE IF res = 0
    THEN /\ lpc' = "compiled"
         /\ outLog' = outLog \o <<Entry("Compilation successful.", <<>>),
                                  Entry("Running C++ project: ", <<proj.path>>)>>
         /\ errLog' = errLog
    ELSE /\ lpc' = "idle"
         /\ outLog' = outLog
         /\ errLog' = errLog \o
               <<Entry("Error compiling C++ project. Command returned: ", <<res>>),
                 Entry("Compiler output:", out)>>

\* The compiler has finished.
CompileClose ==
    /\ lpc = "compiling"
    /\ \E out \in Outputs, res \in PcloseResults :
         /\ DoCompileClose(out, res)
         /\ events' = Append(events, Exited("compile", res, out))
    /\ UNCHANGED proj
    /\ UNCHANGED <<calcVars, mainVars>>

\* The run command is started through popen, unless popen fails.
RunOpen ==
    /\ lpc = "compiled"
    /\ \E opened \in BOOLEAN :
         IF opened
         THEN /\ lpc' = "running"
              /\ events' = Append(events, Started("run"))
              /\ errLog' = errLog
         ELSE /\ lpc' = "idle"
              /\ events' = events
              /\ errLog' = Append(errLog, Entry("Error: Could not execute run command.", <<>>))
    /\ UNCHANGED <<proj, outLog>>
    /\ UNCHANGED <<calcVars, mainVars>>

\* The step after the program's pipe is read to its end (out) and closed
\* (res).
DoRunClose(out, res) ==
    IF res = -1
    THEN /\ outLog' = outLog
         /\ errLog' = Append(errLog, Entry("Error: Failed to close run pipe.", <<>>))
    ELSE IF res = 0
    THEN /\ outLog' = Append(outLog, Entry("Project output:", out))
         /\ errLog' = errLog
    ELSE /\ outLog' = outLog
         /\ errLog' = errLog \o
               <<Entry("Error running C++ project. Command returned: ", <<res>>),
                 Entry("Run output (if any):", out)>>

\* The program has finished.
RunClose ==
    /\ lpc = "running"
    /\ \E out \in Outputs, res \in PcloseResults :
         /\ DoRunClose(out, res)
         /\ events' = Append(events, Exited("run", res, out))
    /\ lpc' = "idle"
    /\ UNCHANGED proj
    /\ UNCHANGED <<calcVars, mainVars>>

\* ------------------------------------------------------------------------
\* Specifications of main and of the launcher window
\* ------------------------------------------------------------------------

\* The calculator is not open.
CalcIdle ==
    /\ expr = <<>> /\ pc = "idle" /\ pos = 0
    /\ eofbit = FALSE /\ failbit = FALSE
    /\ stack = <<>> /\ ret = Zero /\ exc = NoExc
    /\ result = Zero /\ error = "" /\ ok = FALSE
    /\ atoms = {} /\ numAt = -1 /\ numText = <<>> /\ applied = 0

InitMain ==
    /\ CalcIdle
    /\ MainIdle
    /\ LaunchIdle

NextMain ==
    \/ MainCreateDir
    \/ MainCreateDirThrows
    \/ FirstClone
    \/ ExtractOk
    \/ ExtractFails
    \/ SecondClone
    \/ CreateWindow
    \/ GtkInitFails
    \/ LaunchHtml
    \/ GuiClose

SpecMain == InitMain /\ [][NextMain]_vars

\* The longest project list a window is constructed with.
MaxProjects == 2

\* Projects a window can be constructed with.
ProjectPool ==
    { [name |-> <<"Kerdle :) (HTML)">>, type |-> "HTML",
       path |-> <<"Projects", "html", "kerdle", "index.html">>],
      [name |-> <<"Calculator", " (C++)">>, type |-> "C++",
       path |-> <<"Projects", "cpp", "calculator", "calculator_app.cpp">>],
      [name |-> <<"hello", " (C++)">>, type |-> "C++",
       path |-> <<"Projects", "cpp", "hello", "main.cpp">>],
      [name |-> <<"notes", " (Text)">>, type |-> "Text",
       path |-> <<"Projects", "text", "notes.txt">>] }

ProjectLists ==
    UNION {[1..n -> ProjectPool] : n \in 1..MaxProjects}

\* A window constructed with a list of projects, shown by app->run.
InitLaunch ==
    /\ CalcIdle
    /\ LaunchIdle
    /\ mpc = "gui"
    /\ repoIdx = 1
    /\ dirExists = TRUE
    /\ repoDir = [d \in Dirs |-> "absent"]
    /\ projects \in ProjectLists
    /\ menus = GroupByType(projects)
    /\ exitStatus = "running"
    /\ dirCreated = TRUE
    /\ cloned = {}
    /\ removeFailed = FALSE

NextLaunch ==
    \/ LaunchHtml
    \/ LaunchCalculator
    \/ LaunchUnsupported
    \/ LaunchCpp
    \/ CompileClose
    \/ RunOpen
    \/ RunClose

SpecLaunch == InitLaunch /\ [][NextLaunch]_vars


\* ------------------------------------------------------------------------
\* The launcher
\* ------------------------------------------------------------------------

\* The window shows project q in the dropdown of its type.
Shown(q) ==
    /\ q.type \in DOMAIN menus
    /\ \E k \in 1..Len(menus[q.type]) : menus[q.type][k] = q

\* The project list holds an entry for the repository cloned into d.
EntryFor(d) ==
    \E k \in 1..Len(projects) :
        /\ projects[k].path = Append(d, "index.html")
        /\ Shown(projects[k])

\* C11 as stated: once the window is constructed, every repository that a
\* clone into its target directory succeeded for has an entry in the project
\* list, shown in the dropdown of its type.
C11_Original ==
    mpc = "gui" => \A d \in cloned : EntryFor(d)

\* C14 as stated: when main has ended after the temporary directory was
\* created, and no removal failed, the directory does not exist.
C14_Original ==
    (mpc = "exited" /\ dirCreated /\ ~removeFailed) => ~dirExists

\* The positions at which the launch has an event of command cmd.
StartsOf(cmd) == {k \in 1..Len(events) : events[k] = Started(cmd)}
ExitsOf(cmd) == {k \in 1..Len(events) : events[k].cmd = cmd /\ events[k].ev = "exit"}

\* The entries that carry what a command printed.
CapturedMsgs == {"Project output:", "Compiler output:", "Run output (if any):"}

\* The entry of the error log for the output of command cmd.
ErrorEntry(cmd, out) ==
    IF cmd = "compile" THEN Entry("Compiler output:", out)
    ELSE Entry("Run output (if any):", out)

InLog(log, e) == \E k \in 1..Len(log) : log[k] = e

====
